---- MODULE Spec2Model ----
\* Code generation of the block-metadata queries, the historical-view form,
\* the comparison operators and the buffer-to-integer conversions of clar2wasm
\* (clar2wasm/src/words/{blockinfo,comparison,buff_to_integer}.rs).
\*
\* A generator state is a record
\*   [funcs, instrs, literal_memory, locals, err]
\* funcs          the names registered in module.funcs
\* instrs         the instruction sequence of the walrus builder
\* literal_memory the string literals written to the constant region, in order
\* locals         the call-stack locals reserved so far (their types)
\* err            Ok, or the GeneratorError / abort that ended the traversal
EXTENDS Integers, Sequences, FiniteSets, TLC

\* ---------------------------------------------------------------- bounds
\* nesting depth of the sub-expressions handed to a handler
MaxDepth == 2
\* longest operand-type list handed to a simple word
MaxArgs == 2

\* ---------------------------------------------------------------- results
Ok == [kind |-> "Ok", msg |-> ""]
TypeError(m) == [kind |-> "TypeError", msg |-> m]
InternalError(m) == [kind |-> "InternalError", msg |-> m]
\* a Rust panic: the compilation aborts instead of returning a Result
Panic(m) == [kind |-> "Panic", msg |-> m]
\* the error the test at_block_var expects of (var-get data), data undeclared
NoSuchDataVariable(v) == [kind |-> "NoSuchDataVariable", msg |-> v]

\* ---------------------------------------------------------------- types
\* TypeSignature variants, by tag
TypeSignatures ==
    {"int", "uint", "bool", "buff", "string-ascii", "string-utf8",
     "principal", "optional", "response", "list", "tuple", "no-type"}
\* get_expr_type(expr) = None
Untyped == "untyped"

\* ---------------------------------------------------------------- instructions
I32Const(v) == [op |-> "i32.const", name |-> "", val |-> v, ty |-> ""]
LocalGet(l) == [op |-> "local.get", name |-> "", val |-> l, ty |-> ""]
Call(f) == [op |-> "call", name |-> f, val |-> 0, ty |-> ""]
\* the push of a literal value or of a keyword such as block-height
Push(n) == [op |-> "push", name |-> n, val |-> 0, ty |-> ""]
\* the code create_call_stack_local emits to reserve local l for type t
Reserve(l, t) == [op |-> "reserve", name |-> "", val |-> l, ty |-> t]
\* the code read_from_memory emits to load a value of type t from local l
ReadMem(l, t) == [op |-> "read", name |-> "", val |-> l, ty |-> t]

Emit(g, is) == [g EXCEPT !.instrs = @ \o is]
Fail(g, e) == [g EXCEPT !.err = e]

\* ---------------------------------------------------------------- expressions
\* SymbolicExpression with its static type: an Atom, a LiteralValue, or a List
\* whose head atom is `name` and whose remaining elements are `args`
Atom(n) == [kind |-> "Atom", name |-> n, args |-> <<>>, ty |-> Untyped]
Literal(n, t) == [kind |-> "LiteralValue", name |-> n, args |-> <<>>, ty |-> t]
List(n, as, t) == [kind |-> "List", name |-> n, args |-> as, ty |-> t]

\* ---------------------------------------------------------------- registry
HostRoutines ==
    {"stdlib.get_block_info", "stdlib.get_burn_block_info",
     "stdlib.enter_at_block", "stdlib.exit_at_block"}
ComparisonRoutines ==
    {"stdlib." \o b \o "-" \o s : b \in {"lt", "le", "gt", "ge"}, s \in {"int", "uint", "buff"}}
BuffToIntegerRoutines == {"stdlib.buff-to-uint-be", "stdlib.buff-to-uint-le"}
StdlibRoutines == HostRoutines \cup ComparisonRoutines \cup BuffToIntegerRoutines

\* generator.func_by_name(name): its value is passed to builder.call as it is
func_by_name(g, name) == name

\* ---------------------------------------------------------------- generator
RECURSIVE SumLen(_)
SumLen(lits) == IF lits = <<>> THEN 0 ELSE Len(Head(lits)) + SumLen(Tail(lits))

IndexOf(lits, s) == CHOOSE i \in 1..Len(lits) : lits[i] = s

\* generator.add_string_literal(name): the literal is written once at the end of
\* the constant region; the offset of its first byte and its byte length
add_string_literal(g, s) ==
    IF \E i \in 1..Len(g.literal_memory) : g.literal_memory[i] = s
    THEN [g |-> g,
          offset |-> SumLen(SubSeq(g.literal_memory, 1, IndexOf(g.literal_memory, s) - 1)),
          len |-> Len(s)]
    ELSE [g |-> [g EXCEPT !.literal_memory = Append(@, s)],
          offset |-> SumLen(g.literal_memory),
          len |-> Len(s)]

\* generator.create_call_stack_local(builder, ty, true, true): a new local
\* holding the offset of a zeroed slot for a value of type ty
create_call_stack_local(g, t) ==
    [g |-> Emit([g EXCEPT !.locals = Append(@, t)], <<Reserve(Len(g.locals) + 1, t)>>),
     local |-> Len(g.locals) + 1]

\* generator.read_from_memory(builder, offset_local, 0, ty)
read_from_memory(g, l, t) == Emit(g, <<ReadMem(l, t)>>)

\* ArgumentsExt::get_expr(n)
get_expr(args, n) ==
    IF n < Len(args)
    THEN [err |-> Ok, expr |-> args[n + 1]]
    ELSE [err |-> InternalError("missing argument"), expr |-> Atom("")]

\* ArgumentsExt::get_name(n)
get_name(args, n) ==
    IF get_expr(args, n).err # Ok
    THEN [err |-> get_expr(args, n).err, name |-> ""]
    ELSE IF get_expr(args, n).expr.kind # "Atom"
    THEN [err |-> InternalError("argument is not a name"), name |-> ""]
    ELSE [err |-> Ok, name |-> get_expr(args, n).expr.name]

RECURSIVE traverse_expr(_, _)

\* ---------------------------------------------------------------- blockinfo.rs
\* variant: the name length of one arm is off by one
GetBlockInfoProperties_offByOne ==
    ("time" :> <<4, 40>>) @@
    ("header-hash" :> <<11, 56>>) @@
    ("burnchain-header-hash" :> <<21, 56>>) @@
    ("id-header-hash" :> <<14, 56>>) @@
    ("miner-address" :> <<13, 174>>) @@
    ("block-reward" :> <<12, 40>>) @@
    ("miner-spend-total" :> <<18, 40>>) @@
    ("miner-spend-winner" :> <<18, 40>>)

\* the match of GetBlockInfo::traverse: name |-> (name_length, return_size)
GetBlockInfoProperties ==
    ("time" :> <<4, 40>>) @@
    ("header-hash" :> <<11, 56>>) @@
    ("burnchain-header-hash" :> <<21, 56>>) @@
    ("id-header-hash" :> <<14, 56>>) @@
    ("miner-address" :> <<13, 174>>) @@
    ("block-reward" :> <<12, 40>>) @@
    ("miner-spend-total" :> <<17, 40>>) @@
    ("miner-spend-winner" :> <<18, 40>>)

\* variant: the burn-block match also takes a block-metadata property
GetBurnBlockInfoProperties_withTime ==
    ("header-hash" :> <<11, 56>>) @@
    ("pox-addrs" :> <<9, 154>>) @@
    ("time" :> <<4, 40>>)

\* variant: the max result size of header-hash is the nominal 32 of a buff 32
GetBurnBlockInfoProperties_nominal32 ==
    ("header-hash" :> <<11, 32>>) @@
    ("pox-addrs" :> <<9, 154>>)

\* the match of GetBurnBlockInfo::traverse
GetBurnBlockInfoProperties ==
    ("header-hash" :> <<11, 56>>) @@
    ("pox-addrs" :> <<9, 154>>)

\* variant: the scratch slot is reserved before the type of the node is read
GetBlockInfo_traverse_reserveFirst(g, expr, args) ==
    IF get_name(args, 0).err # Ok THEN Fail(g, get_name(args, 0).err)
    ELSE IF get_expr(args, 1).err # Ok THEN Fail(g, get_expr(args, 1).err)
    ELSE
    LET prop_name == get_name(args, 0).name
        block == get_expr(args, 1).expr
    IN  IF prop_name \notin DOMAIN GetBlockInfoProperties
        THEN Fail(g, InternalError("GetBlockInfo does not have a property of type " \o prop_name))
        ELSE
        LET name_length == GetBlockInfoProperties[prop_name][1]
            return_size == GetBlockInfoProperties[prop_name][2]
            lit == add_string_literal(g, prop_name)
            g1 == Emit(lit.g, <<I32Const(lit.offset), I32Const(name_length)>>)
            g2 == traverse_expr(g1, block)
        IN  IF g2.err # Ok THEN g2
            ELSE
            LET return_ty == expr.ty
                loc == create_call_stack_local(g2, return_ty)
                g3 == Emit(loc.g, <<LocalGet(loc.local), I32Const(return_size)>>)
                g4 == Emit(g3, <<Call(func_by_name(g3, "stdlib.get_block_info"))>>)
            IN  IF expr.ty = Untyped
                THEN Fail(loc.g, TypeError("get-block-info? expression must be typed"))
                ELSE read_from_memory(g4, loc.local, return_ty)

GetBlockInfo_traverse(g, expr, args) ==
    IF get_name(args, 0).err # Ok THEN Fail(g, get_name(args, 0).err)
    ELSE IF get_expr(args, 1).err # Ok THEN Fail(g, get_expr(args, 1).err)
    ELSE
    LET prop_name == get_name(args, 0).name
        block == get_expr(args, 1).expr
    IN  IF prop_name \notin DOMAIN GetBlockInfoProperties
        THEN Fail(g, InternalError("GetBlockInfo does not have a property of type " \o prop_name))
        ELSE
        LET name_length == GetBlockInfoProperties[prop_name][1]
            return_size == GetBlockInfoProperties[prop_name][2]
            lit == add_string_literal(g, prop_name)
            g1 == Emit(lit.g, <<I32Const(lit.offset), I32Const(name_length)>>)
            g2 == traverse_expr(g1, block)
        IN  IF g2.err # Ok THEN g2
            ELSE IF expr.ty = Untyped
            THEN Fail(g2, TypeError("get-block-info? expression must be typed"))
            ELSE
            LET return_ty == expr.ty
                loc == create_call_stack_local(g2, return_ty)
                g3 == Emit(loc.g, <<LocalGet(loc.local), I32Const(return_size)>>)
                g4 == Emit(g3, <<Call(func_by_name(g3, "stdlib.get_block_info"))>>)
            IN  read_from_memory(g4, loc.local, return_ty)

\* variant: the slot is read back before the host routine is called
GetBurnBlockInfo_traverse_readFirst(g, expr, args) ==
    IF get_name(args, 0).err # Ok THEN Fail(g, get_name(args, 0).err)
    ELSE IF get_expr(args, 1).err # Ok THEN Fail(g, get_expr(args, 1).err)
    ELSE
    LET prop_name == get_name(args, 0).name
        block == get_expr(args, 1).expr
    IN  IF prop_name \notin DOMAIN GetBurnBlockInfoProperties
        THEN Fail(g, InternalError("GetBurnBlockInfo does not have a property of type " \o prop_name))
        ELSE
        LET name_length == GetBurnBlockInfoProperties[prop_name][1]
            return_size == GetBurnBlockInfoProperties[prop_name][2]
            lit == add_string_literal(g, prop_name)
            g1 == Emit(lit.g, <<I32Const(lit.offset), I32Const(name_length)>>)
            g2 == traverse_expr(g1, block)
        IN  IF g2.err # Ok THEN g2
            ELSE IF expr.ty = Untyped
            THEN Fail(g2, TypeError("get-burn-block-info? expression must be typed"))
            ELSE
            LET return_ty == expr.ty
                loc == create_call_stack_local(g2, return_ty)
                g3 == Emit(loc.g, <<LocalGet(loc.local), I32Const(return_size)>>)
                g4 == read_from_memory(g3, loc.local, return_ty)
            IN  Emit(g4, <<Call(func_by_name(g4, "stdlib.get_burn_block_info"))>>)

GetBurnBlockInfo_traverse(g, expr, args) ==
    IF get_name(args, 0).err # Ok THEN Fail(g, get_name(args, 0).err)
    ELSE IF get_expr(args, 1).err # Ok THEN Fail(g, get_expr(args, 1).err)
    ELSE
    LET prop_name == get_name(args, 0).name
        block == get_expr(args, 1).expr
    IN  IF prop_name \notin DOMAIN GetBurnBlockInfoProperties
        THEN Fail(g, InternalError("GetBurnBlockInfo does not have a property of type " \o prop_name))
        ELSE
        LET name_length == GetBurnBlockInfoProperties[prop_name][1]
            return_size == GetBurnBlockInfoProperties[prop_name][2]
            lit == add_string_literal(g, prop_name)
            g1 == Emit(lit.g, <<I32Const(lit.offset), I32Const(name_length)>>)
            g2 == traverse_expr(g1, block)
        IN  IF g2.err # Ok THEN g2
            ELSE IF expr.ty = Untyped
            THEN Fail(g2, TypeError("get-burn-block-info? expression must be typed"))
            ELSE
            LET return_ty == expr.ty
                loc == create_call_stack_local(g2, return_ty)
                g3 == Emit(loc.g, <<LocalGet(loc.local), I32Const(return_size)>>)
                g4 == Emit(g3, <<Call(func_by_name(g3, "stdlib.get_burn_block_info"))>>)
            IN  read_from_memory(g4, loc.local, return_ty)

\* variant: the exit call is emitted before the inner expression
AtBlock_traverse_exitEarly(g, expr, args) ==
    IF get_expr(args, 0).err # Ok THEN Fail(g, get_expr(args, 0).err)
    ELSE IF get_expr(args, 1).err # Ok THEN Fail(g, get_expr(args, 1).err)
    ELSE
    LET block_hash == get_expr(args, 0).expr
        e == get_expr(args, 1).expr
        g1 == traverse_expr(g, block_hash)
    IN  IF g1.err # Ok THEN g1
        ELSE
        LET g2 == Emit(g1, <<Call(func_by_name(g1, "stdlib.enter_at_block")),
                             Call(func_by_name(g1, "stdlib.exit_at_block"))>>)
        IN  traverse_expr(g2, e)

\* variant: the exit call is emitted whether or not the inner expression failed
AtBlock_traverse_exitAlways(g, expr, args) ==
    IF get_expr(args, 0).err # Ok THEN Fail(g, get_expr(args, 0).err)
    ELSE IF get_expr(args, 1).err # Ok THEN Fail(g, get_expr(args, 1).err)
    ELSE
    LET block_hash == get_expr(args, 0).expr
        e == get_expr(args, 1).expr
        g1 == traverse_expr(g, block_hash)
    IN  IF g1.err # Ok THEN g1
        ELSE
        LET g2 == Emit(g1, <<Call(func_by_name(g1, "stdlib.enter_at_block"))>>)
            g3 == traverse_expr(g2, e)
        IN  Emit(g3, <<Call(func_by_name(g3, "stdlib.exit_at_block"))>>)

AtBlock_traverse(g, expr, args) ==
    IF get_expr(args, 0).err # Ok THEN Fail(g, get_expr(args, 0).err)
    ELSE IF get_expr(args, 1).err # Ok THEN Fail(g, get_expr(args, 1).err)
    ELSE
    LET block_hash == get_expr(args, 0).expr
        e == get_expr(args, 1).expr
        g1 == traverse_expr(g, block_hash)
    IN  IF g1.err # Ok THEN g1
        ELSE
        LET g2 == Emit(g1, <<Call(func_by_name(g1, "stdlib.enter_at_block"))>>)
            g3 == traverse_expr(g2, e)
        IN  IF g3.err # Ok THEN g3
            ELSE Emit(g3, <<Call(func_by_name(g3, "stdlib.exit_at_block"))>>)

\* ---------------------------------------------------------------- comparison.rs
\* variant: the string-utf8 arm is missing
traverse_comparison_noUtf8(name, g, arg_types, return_type) ==
    IF Len(arg_types) = 0
    THEN Fail(g, Panic("index out of bounds: the len is 0 but the index is 0"))
    ELSE
    LET ty == arg_types[1]
        supported == ty \in {"int", "uint", "string-ascii", "buff"}
        type_suffix ==
            CASE ty = "int" -> "int"
              [] ty = "uint" -> "uint"
              [] ty \in {"string-ascii", "buff"} -> "buff"
              [] OTHER -> ""
    IN  IF ~supported
        THEN Fail(g, TypeError("invalid type for comparison"))
        ELSE IF ("stdlib." \o name \o "-" \o type_suffix) \notin g.funcs
        THEN Fail(g, InternalError("function not found: " \o name \o "-" \o type_suffix))
        ELSE Emit(g, <<Call("stdlib." \o name \o "-" \o type_suffix)>>)

\* variant: the call is emitted without looking the routine up
traverse_comparison_noLookup(name, g, arg_types, return_type) ==
    IF Len(arg_types) = 0
    THEN Fail(g, Panic("index out of bounds: the len is 0 but the index is 0"))
    ELSE
    LET ty == arg_types[1]
        supported == ty \in {"int", "uint", "string-ascii", "buff", "string-utf8"}
        type_suffix ==
            CASE ty = "int" -> "int"
              [] ty = "uint" -> "uint"
              [] ty \in {"string-ascii", "buff"} -> "buff"
              [] ty = "string-utf8" -> "buff"
              [] OTHER -> ""
    IN  IF ~supported
        THEN Fail(g, TypeError("invalid type for comparison"))
        ELSE Emit(g, <<Call("stdlib." \o name \o "-" \o type_suffix)>>)

traverse_comparison(name, g, arg_types, return_type) ==
    IF Len(arg_types) = 0
    THEN Fail(g, Panic("index out of bounds: the len is 0 but the index is 0"))
    ELSE
    LET ty == arg_types[1]
        supported == ty \in {"int", "uint", "string-ascii", "buff", "string-utf8"}
        type_suffix ==
            CASE ty = "int" -> "int"
              [] ty = "uint" -> "uint"
              [] ty \in {"string-ascii", "buff"} -> "buff"
              [] ty = "string-utf8" -> "buff"
              [] OTHER -> ""
    IN  IF ~supported
        THEN Fail(g, TypeError("invalid type for comparison"))
        ELSE IF ("stdlib." \o name \o "-" \o type_suffix) \notin g.funcs
        THEN Fail(g, InternalError("function not found: " \o name \o "-" \o type_suffix))
        ELSE Emit(g, <<Call("stdlib." \o name \o "-" \o type_suffix)>>)

CmpLess_visit(g, arg_types, return_type) ==
    traverse_comparison("lt", g, arg_types, return_type)

CmpLeq_visit(g, arg_types, return_type) ==
    traverse_comparison("le", g, arg_types, return_type)

CmpGreater_visit(g, arg_types, return_type) ==
    traverse_comparison("gt", g, arg_types, return_type)

CmpGeq_visit(g, arg_types, return_type) ==
    traverse_comparison("ge", g, arg_types, return_type)

\* ---------------------------------------------------------------- buff_to_integer.rs
traverse_buffer_to_integer(name, g) ==
    IF name \notin g.funcs
    THEN Fail(g, InternalError("function not found: " \o name))
    ELSE Emit(g, <<Call(name)>>)

BuffToUintBe_visit(g, arg_types, return_type) ==
    traverse_buffer_to_integer("stdlib.buff-to-uint-be", g)

BuffToIntBe_visit(g, arg_types, return_type) ==
    traverse_buffer_to_integer("stdlib.buff-to-uint-be", g)

BuffToUintLe_visit(g, arg_types, return_type) ==
    traverse_buffer_to_integer("stdlib.buff-to-uint-le", g)

\* variant: the signed conversion names a routine of its own
BuffToIntLe_visit_signed(g, arg_types, return_type) ==
    traverse_buffer_to_integer("stdlib.buff-to-int-le", g)

BuffToIntLe_visit(g, arg_types, return_type) ==
    traverse_buffer_to_integer("stdlib.buff-to-uint-le", g)

\* ---------------------------------------------------------------- the driver
SimpleWords ==
    {"<", "<=", ">", ">=",
     "buff-to-uint-be", "buff-to-int-be", "buff-to-uint-le", "buff-to-int-le"}

\* SimpleWord::visit of the word registered under keyword w
visit(w, g, arg_types, return_type) ==
    CASE w = "<" -> CmpLess_visit(g, arg_types, return_type)
      [] w = "<=" -> CmpLeq_visit(g, arg_types, return_type)
      [] w = ">" -> CmpGreater_visit(g, arg_types, return_type)
      [] w = ">=" -> CmpGeq_visit(g, arg_types, return_type)
      [] w = "buff-to-uint-be" -> BuffToUintBe_visit(g, arg_types, return_type)
      [] w = "buff-to-int-be" -> BuffToIntBe_visit(g, arg_types, return_type)
      [] w = "buff-to-uint-le" -> BuffToUintLe_visit(g, arg_types, return_type)
      [] w = "buff-to-int-le" -> BuffToIntLe_visit(g, arg_types, return_type)

\* the operands of a self-contained construct, left to right
RECURSIVE traverse_args(_, _)
traverse_args(g, args) ==
    IF args = <<>> \/ g.err # Ok THEN g
    ELSE traverse_args(traverse_expr(g, Head(args)), Tail(args))

\* WasmGenerator::traverse_expr: dispatch on the node
traverse_expr(g, e) ==
    CASE e.kind = "LiteralValue" -> Emit(g, <<Push(e.name)>>)
      [] e.kind = "Atom" -> Emit(g, <<Push(e.name)>>)
      [] e.kind = "List" /\ e.name = "get-block-info?" -> GetBlockInfo_traverse(g, e, e.args)
      [] e.kind = "List" /\ e.name = "get-burn-block-info?" -> GetBurnBlockInfo_traverse(g, e, e.args)
      [] e.kind = "List" /\ e.name = "at-block" -> AtBlock_traverse(g, e, e.args)
      [] e.kind = "List" /\ e.name \in SimpleWords ->
            IF traverse_args(g, e.args).err # Ok
            THEN traverse_args(g, e.args)
            ELSE visit(e.name, traverse_args(g, e.args),
                       [i \in 1..Len(e.args) |-> e.args[i].ty], e.ty)
      [] e.kind = "List" /\ e.name = "var-get" ->
            Fail(g, NoSuchDataVariable(e.args[1].name))
      [] OTHER -> Fail(g, InternalError("unsupported expression"))

\* ---------------------------------------------------------------- inputs
LitU0 == Literal("u0", "uint")
BlockHeight == Atom("block-height")
\* (var-get data) in a contract that declares no data variable
VarGetData == List("var-get", <<Atom("data")>>, "int")
Leaves == {LitU0, BlockHeight, VarGetData}

OptionalUint == "(optional uint)"
OptionalBuff == "(optional (buff 32))"
ReturnTypes == {OptionalUint, OptionalBuff, Untyped}

Forms ==
    {List("get-block-info?", <<Atom("time"), LitU0>>, OptionalUint),
     List("get-block-info?", <<Atom("pox-addrs"), LitU0>>, OptionalUint),
     List("get-block-info?", <<Atom("time"), LitU0>>, Untyped),
     List("get-burn-block-info?", <<Atom("header-hash"), LitU0>>, OptionalBuff),
     List("<", <<LitU0, LitU0>>, "bool")}

\* the sub-expressions of nesting depth <= d
RECURSIVE Nest(_)
Nest(d) ==
    IF d = 0 THEN Leaves
    ELSE Leaves \cup Forms \cup
         {List("at-block", <<b, e>>, e.ty) : b \in Leaves, e \in Nest(d - 1)}

PropertyNames ==
    {"time", "header-hash", "burnchain-header-hash", "id-header-hash",
     "miner-address", "block-reward", "miner-spend-total", "miner-spend-winner",
     "pox-addrs", "block-height"}

\* argument lists of a metadata query, well-formed and malformed
BlockInfoArgs ==
    {<<>>, <<Atom("time")>>, <<Atom("block-height")>>, <<LitU0>>, <<LitU0, LitU0>>}
    \cup {<<Atom(p), b>> : p \in PropertyNames, b \in Nest(MaxDepth)}

\* argument lists of at-block, well-formed and malformed
AtBlockArgs ==
    {<<>>} \cup {<<b>> : b \in Leaves}
    \cup {<<b, e>> : b \in Nest(MaxDepth), e \in Nest(MaxDepth)}

RECURSIVE TypeLists(_)
TypeLists(n) ==
    IF n = 0 THEN {<<>>}
    ELSE TypeLists(n - 1) \cup
         {Append(ts, t) : ts \in {l \in TypeLists(n - 1) : Len(l) = n - 1}, t \in TypeSignatures}

\* ---------------------------------------------------------------- state
VARIABLES funcs, instrs, literal_memory, locals, result, call, pre
vars == <<funcs, instrs, literal_memory, locals, result, call, pre>>

Gen ==
    [funcs |-> funcs, instrs |-> instrs, literal_memory |-> literal_memory,
     locals |-> locals, err |-> Ok]

\* WasmGenerator::new: nothing emitted, no literal, no local
Fresh(fs) ==
    [funcs |-> fs, instrs |-> <<>>, literal_memory |-> <<>>, locals |-> <<>>, err |-> Ok]

\* the generator after (get-block-info? header-hash u0) was compiled
Used(fs) ==
    GetBlockInfo_traverse(Fresh(fs),
        List("get-block-info?", <<Atom("header-hash"), LitU0>>, OptionalBuff),
        <<Atom("header-hash"), LitU0>>)

NoCall == [word |-> "none", args |-> <<>>, arg_types |-> <<>>, ty |-> Untyped]

Init ==
    \E fs \in {StdlibRoutines} \cup
              {StdlibRoutines \ {r} : r \in ComparisonRoutines \cup BuffToIntegerRoutines} :
    \E g \in {Fresh(fs), Used(fs)} :
        /\ funcs = fs
        /\ instrs = g.instrs
        /\ literal_memory = g.literal_memory
        /\ locals = g.locals
        /\ result = Ok
        /\ call = NoCall
        /\ pre = g

\* the state after a handler returned g for the invocation c
Return(g, c) ==
    /\ funcs' = g.funcs
    /\ instrs' = g.instrs
    /\ literal_memory' = g.literal_memory
    /\ locals' = g.locals
    /\ result' = g.err
    /\ call' = c
    /\ pre' = Gen

Complex(w, as, t) == [word |-> w, args |-> as, arg_types |-> <<>>, ty |-> t]
Simple(w, ts, t) == [word |-> w, args |-> <<>>, arg_types |-> ts, ty |-> t]

GetBlockInfo ==
    /\ call.word = "none"
    /\ \E as \in BlockInfoArgs, t \in ReturnTypes :
        Return(GetBlockInfo_traverse(Gen, List("get-block-info?", as, t), as),
               Complex("get-block-info?", as, t))

GetBurnBlockInfo ==
    /\ call.word = "none"
    /\ \E as \in BlockInfoArgs, t \in ReturnTypes :
        Return(GetBurnBlockInfo_traverse(Gen, List("get-burn-block-info?", as, t), as),
               Complex("get-burn-block-info?", as, t))

AtBlock ==
    /\ call.word = "none"
    /\ \E as \in AtBlockArgs :
        Return(AtBlock_traverse(Gen, List("at-block", as, OptionalUint), as),
               Complex("at-block", as, OptionalUint))

CmpLess ==
    /\ call.word = "none"
    /\ \E ts \in TypeLists(MaxArgs) :
        Return(CmpLess_visit(Gen, ts, "bool"), Simple("<", ts, "bool"))

CmpLeq ==
    /\ call.word = "none"
    /\ \E ts \in TypeLists(MaxArgs) :
        Return(CmpLeq_visit(Gen, ts, "bool"), Simple("<=", ts, "bool"))

CmpGreater ==
    /\ call.word = "none"
    /\ \E ts \in TypeLists(MaxArgs) :
        Return(CmpGreater_visit(Gen, ts, "bool"), Simple(">", ts, "bool"))

CmpGeq ==
    /\ call.word = "none"
    /\ \E ts \in TypeLists(MaxArgs) :
        Return(CmpGeq_visit(Gen, ts, "bool"), Simple(">=", ts, "bool"))

BuffToUintBe ==
    /\ call.word = "none"
    /\ \E t \in {"buff", "list"} :
        Return(BuffToUintBe_visit(Gen, <<t>>, "uint"), Simple("buff-to-uint-be", <<t>>, "uint"))

BuffToIntBe ==
    /\ call.word = "none"
    /\ \E t \in {"buff", "list"} :
        Return(BuffToIntBe_visit(Gen, <<t>>, "int"), Simple("buff-to-int-be", <<t>>, "int"))

BuffToUintLe ==
    /\ call.word = "none"
    /\ \E t \in {"buff", "list"} :
        Return(BuffToUintLe_visit(Gen, <<t>>, "uint"), Simple("buff-to-uint-le", <<t>>, "uint"))

BuffToIntLe ==
    /\ call.word = "none"
    /\ \E t \in {"buff", "list"} :
        Return(BuffToIntLe_visit(Gen, <<t>>, "int"), Simple("buff-to-int-le", <<t>>, "int"))

Next ==
    \/ GetBlockInfo
    \/ GetBurnBlockInfo
    \/ AtBlock
    \/ CmpLess
    \/ CmpLeq
    \/ CmpGreater
    \/ CmpGeq
    \/ BuffToUintBe
    \/ BuffToIntBe
    \/ BuffToUintLe
    \/ BuffToIntLe

Spec == Init /\ [][Next]_vars

TypeOK ==
    /\ funcs \subseteq StdlibRoutines
    /\ HostRoutines \subseteq funcs
    /\ result.kind \in {"Ok", "TypeError", "InternalError", "Panic", "NoSuchDataVariable"}

\* ---------------------------------------------------------------- properties
\* what the last handler appended to the builder
Own == SubSeq(instrs, Len(pre.instrs) + 1, Len(instrs))

\* what traversing e from generator state g appends to the builder
Emitted(g, e) ==
    SubSeq(traverse_expr(g, e).instrs, Len(g.instrs) + 1, Len(traverse_expr(g, e).instrs))

RECURSIVE Count(_, _)
Count(is, i) ==
    IF is = <<>> THEN 0
    ELSE (IF Head(is) = i THEN 1 ELSE 0) + Count(Tail(is), i)

Enter == Call("stdlib.enter_at_block")
Exit == Call("stdlib.exit_at_block")

\* every exit closes an open enter, and none stays open at the end
RECURSIVE Bracketed(_, _)
Bracketed(is, open) ==
    IF is = <<>> THEN open = 0
    ELSE IF Head(is) = Enter THEN Bracketed(Tail(is), open + 1)
    ELSE IF Head(is) = Exit THEN open > 0 /\ Bracketed(Tail(is), open - 1)
    ELSE Bracketed(Tail(is), open)

\* the generator once the block-hash operand of the last at-block is compiled
AfterBlockHash == traverse_expr(pre, call.args[1])
\* the generator once its inner expression is compiled too
AfterInner == traverse_expr(Emit(AfterBlockHash, <<Enter>>), call.args[2])

\* C1: a well-formed at-block whose block hash B and inner expression E both
\* compile emits the instructions of B, one enter_at_block call, the instructions
\* of E, one exit_at_block call and nothing else, so that the enter and exit
\* calls of nested at-block forms are properly nested and balanced.
C1_AtBlockBrackets ==
    (call.word = "at-block" /\ Len(call.args) = 2
        /\ AfterBlockHash.err = Ok /\ AfterInner.err = Ok)
    => /\ result = Ok
       /\ Own = Emitted(pre, call.args[1]) \o <<Enter>>
                \o Emitted(Emit(AfterBlockHash, <<Enter>>), call.args[2]) \o <<Exit>>
       /\ Count(Own, Enter) = 1 + Count(Emitted(pre, call.args[1]), Enter)
                + Count(Emitted(Emit(AfterBlockHash, <<Enter>>), call.args[2]), Enter)
       /\ Count(Own, Exit) = Count(Own, Enter)
       /\ Bracketed(Own, 0)

\* an at-block whose inner expression is an at-block has been compiled
C1_Witness ==
    /\ call.word = "at-block" /\ Len(call.args) = 2
    /\ call.args[2].name = "at-block"
    /\ result = Ok
    /\ Count(Own, Enter) = 2

\* C7: a failure of the block-hash operand or of the inner expression of at-block
\* is the handler's result, unchanged; nothing is emitted after the failure: no
\* enter call after a failed block hash, no exit call after a failed inner
\* expression.
C7_AtBlockPropagates ==
    (call.word = "at-block" /\ Len(call.args) = 2)
    => /\ AfterBlockHash.err # Ok
            => /\ result = AfterBlockHash.err
               /\ instrs = AfterBlockHash.instrs
               /\ Count(Own, Enter) = Count(Emitted(pre, call.args[1]), Enter)
       /\ (AfterBlockHash.err = Ok /\ AfterInner.err # Ok)
            => /\ result = AfterInner.err
               /\ instrs = AfterInner.instrs
               /\ Count(Own, Exit)
                    = Count(Emitted(pre, call.args[1]), Exit)
                      + Count(Emitted(Emit(AfterBlockHash, <<Enter>>), call.args[2]), Exit)
       /\ (AfterBlockHash.err # Ok \/ AfterInner.err # Ok) => result # Ok

\* (at-block <hash> (var-get data)) failed with the error of (var-get data)
C7_Witness ==
    /\ call.word = "at-block" /\ Len(call.args) = 2
    /\ call.args[1] = LitU0
    /\ call.args[2] = VarGetData
    /\ result = NoSuchDataVariable("data")
    /\ Own = <<Push("u0"), Enter>>

\* the property tables of the generator/host contract:
\* family |-> property |-> (name length, max result size)
PropertyTable ==
    ("get-block-info?" :>
        (("time" :> <<4, 40>>) @@ ("header-hash" :> <<11, 56>>) @@
         ("burnchain-header-hash" :> <<21, 56>>) @@ ("id-header-hash" :> <<14, 56>>) @@
         ("miner-address" :> <<13, 174>>) @@ ("block-reward" :> <<12, 40>>) @@
         ("miner-spend-total" :> <<17, 40>>) @@ ("miner-spend-winner" :> <<18, 40>>))) @@
    ("get-burn-block-info?" :>
        (("header-hash" :> <<11, 56>>) @@ ("pox-addrs" :> <<9, 154>>)))

HostRoutine ==
    ("get-block-info?" :> "stdlib.get_block_info") @@
    ("get-burn-block-info?" :> "stdlib.get_burn_block_info")

Queries == {"get-block-info?", "get-burn-block-info?"}

\* the last call was a metadata query with a name and a block operand
WellFormedQuery ==
    /\ call.word \in Queries
    /\ Len(call.args) = 2
    /\ call.args[1].kind = "Atom"

\* the literal whose first byte is at offset off of the constant region
LiteralsAt(off) ==
    {literal_memory[i] : i \in {j \in 1..Len(literal_memory) :
        SumLen(SubSeq(literal_memory, 1, j - 1)) = off}}

\* the generator once the block operand of the last query is compiled
AfterBlock ==
    traverse_expr(
        [pre EXCEPT !.literal_memory =
                        IF \E i \in 1..Len(@) : @[i] = call.args[1].name
                        THEN @ ELSE Append(@, call.args[1].name),
                    !.instrs = SubSeq(instrs, 1, Len(pre.instrs) + 2)],
        call.args[2])

\* what the query handler emitted after its block operand
AfterOperand == SubSeq(instrs, Len(AfterBlock.instrs) + 1, Len(instrs))

\* C2: a successful metadata query pushes the table's name length, which is the
\* byte length of the property-name literal in the constant region, pushes the
\* table's max result size, and calls the host routine of its family once and
\* that of the other family never; every table entry compiles when its operand
\* does and the node is typed.
C2_QueryMatchesTable ==
    WellFormedQuery =>
    LET prop == call.args[1].name
        table == PropertyTable[call.word]
        other == CHOOSE w \in Queries : w # call.word
    IN  /\ result = Ok =>
            /\ prop \in DOMAIN table
            /\ Own[1].op = "i32.const"
            /\ LiteralsAt(Own[1].val) = {prop}
            /\ Own[2] = I32Const(table[prop][1])
            /\ table[prop][1] = Len(prop)
            /\ Len(AfterOperand) = 5
            /\ AfterOperand[3] = I32Const(table[prop][2])
            /\ AfterOperand[4] = Call(HostRoutine[call.word])
            /\ Count(AfterOperand, Call(HostRoutine[call.word])) = 1
            /\ Count(AfterOperand, Call(HostRoutine[other])) = 0
            /\ \A i \in 1..Len(AfterOperand) :
                AfterOperand[i].op = "call" => AfterOperand[i] = Call(HostRoutine[call.word])
        /\ (prop \in DOMAIN table /\ AfterBlock.err = Ok /\ call.ty # Untyped) => result = Ok

\* (get-burn-block-info? pox-addrs ..) compiled in a generator that already
\* holds a literal
C2_Witness ==
    /\ WellFormedQuery
    /\ call.word = "get-burn-block-info?"
    /\ call.args[1].name = "pox-addrs"
    /\ pre.literal_memory # <<>>
    /\ result = Ok
    /\ Own[1] = I32Const(11)
    /\ Own[2] = I32Const(9)

\* C3: a metadata query whose property name is not in its family's table fails
\* with InternalError, and has emitted no instruction and added no literal.
C3_UnknownProperty ==
    (WellFormedQuery /\ call.args[1].name \notin DOMAIN PropertyTable[call.word])
    => /\ result.kind = "InternalError"
       /\ instrs = pre.instrs
       /\ literal_memory = pre.literal_memory
       /\ locals = pre.locals

\* (get-burn-block-info? time ..): a property of the other family only
C3_Witness ==
    /\ WellFormedQuery
    /\ call.word = "get-burn-block-info?"
    /\ call.args[1].name = "time"
    /\ call.args[2] = LitU0
    /\ call.ty # Untyped
    /\ result.kind = "InternalError"

\* C9: a metadata query with a known property and a compiled block operand
\* whose node carries no type fails with TypeError "<keyword> expression must be
\* typed", and no slot is reserved, no host call and no read-back emitted; with
\* an unknown property and no type the result is InternalError.
C9_UntypedQuery ==
    (WellFormedQuery /\ call.ty = Untyped)
    => IF call.args[1].name \in DOMAIN PropertyTable[call.word]
       THEN AfterBlock.err = Ok
            => /\ result = TypeError(call.word \o " expression must be typed")
               /\ locals = AfterBlock.locals
               /\ AfterOperand = <<>>
               /\ instrs = AfterBlock.instrs
       ELSE result.kind = "InternalError"

\* (get-block-info? time u0) on an untyped node
C9_Witness ==
    /\ WellFormedQuery
    /\ call.word = "get-block-info?"
    /\ call.args[1].name = "time"
    /\ call.args[2] = LitU0
    /\ call.ty = Untyped
    /\ result.kind = "TypeError"
    /\ Len(Own) = 3

Comparisons == {"<", "<=", ">", ">="}
BaseName == ("<" :> "lt") @@ ("<=" :> "le") @@ (">" :> "gt") @@ (">=" :> "ge")
TypeSuffix ==
    ("int" :> "int") @@ ("uint" :> "uint") @@ ("buff" :> "buff") @@
    ("string-ascii" :> "buff") @@ ("string-utf8" :> "buff")

\* C4: a comparison calls stdlib.<base>-<suffix>, the suffix set by the type of
\* the first operand alone (int, uint, or buff for buffers and both string
\* types); any other first operand type is TypeError "invalid type for
\* comparison" with no call, never a default routine.
C4_ComparisonRoutine ==
    (call.word \in Comparisons /\ Len(call.arg_types) >= 1)
    => IF call.arg_types[1] \in DOMAIN TypeSuffix
       THEN LET r == "stdlib." \o BaseName[call.word] \o "-" \o TypeSuffix[call.arg_types[1]]
            IN  /\ result.kind # "TypeError"
                /\ r \in funcs => result = Ok
                /\ result = Ok => Own = <<Call(r)>>
       ELSE /\ result = TypeError("invalid type for comparison")
            /\ Own = <<>>

\* (<= string-utf8 int) compiled to a call
C4_Witness ==
    /\ call.word = "<="
    /\ call.arg_types = <<"string-utf8", "int">>
    /\ result = Ok
    /\ Own = <<Call("stdlib.le-buff")>>

BuffToInteger == {"buff-to-uint-be", "buff-to-int-be", "buff-to-uint-le", "buff-to-int-le"}
EndianRoutine ==
    ("buff-to-uint-be" :> "stdlib.buff-to-uint-be") @@
    ("buff-to-int-be" :> "stdlib.buff-to-uint-be") @@
    ("buff-to-uint-le" :> "stdlib.buff-to-uint-le") @@
    ("buff-to-int-le" :> "stdlib.buff-to-uint-le")

\* C5: the buffer-to-integer handlers route by endianness only: the signed and
\* the unsigned handler of one endianness emit the same single call, whatever
\* the operand and return types.
C5_BuffToIntegerRoutine ==
    call.word \in BuffToInteger
    => /\ result = Ok <=> EndianRoutine[call.word] \in funcs
       /\ result = Ok => Own = <<Call(EndianRoutine[call.word])>>
       /\ result # Ok => Own = <<>>

\* buff-to-int-le compiled to the call of the unsigned routine
C5_Witness ==
    /\ call.word = "buff-to-int-le"
    /\ result = Ok
    /\ Own = <<Call("stdlib.buff-to-uint-le")>>

\* C8: a malformed argument list (a metadata query without a name first or
\* without a second argument, an at-block with fewer than two arguments, a
\* comparison with no operand type) yields InternalError with nothing emitted.
C8_MalformedIsInternalError ==
    (\/ call.word \in Queries /\ ~WellFormedQuery
     \/ call.word = "at-block" /\ Len(call.args) < 2
     \/ call.word \in Comparisons /\ call.arg_types = <<>>)
    => /\ result.kind = "InternalError"
       /\ instrs = pre.instrs

\* C10: a comparison of a supported first operand type, or a buffer-to-integer
\* conversion, whose routine is not registered fails with InternalError
\* "function not found: ..." and emits nothing; an unsupported comparison type is
\* TypeError whatever the registry holds.
C10_MissingRoutine ==
    /\ (call.word \in Comparisons /\ Len(call.arg_types) >= 1)
        => IF call.arg_types[1] \in DOMAIN TypeSuffix
           THEN LET n == BaseName[call.word] \o "-" \o TypeSuffix[call.arg_types[1]]
                IN  ("stdlib." \o n) \notin funcs
                    => /\ result = InternalError("function not found: " \o n)
                       /\ instrs = pre.instrs
           ELSE result.kind = "TypeError"
    /\ call.word \in BuffToInteger
        => (EndianRoutine[call.word] \notin funcs
            => /\ result = InternalError("function not found: " \o EndianRoutine[call.word])
               /\ instrs = pre.instrs)
    /\ \A i \in 1..Len(Own) : Own[i].op = "call" => Own[i].name \in funcs

\* (< buff ..) with stdlib.lt-buff not registered
C10_Witness ==
    /\ call.word = "<"
    /\ Len(call.arg_types) >= 1
    /\ call.arg_types[1] = "buff"
    /\ "stdlib.lt-buff" \notin funcs
    /\ result = InternalError("function not found: lt-buff")

\* the positions of instruction i in the sequence is
Positions(is, i) == {k \in 1..Len(is) : is[k] = i}

\* C11: a successful metadata query emits, in this order, the literal's offset
\* and length, the block operand, the reservation of the scratch slot, the
\* slot's offset and the max result size, the host call, and the read-back: the
\* slot is reserved before the host call, the host call precedes the read-back,
\* and the read-back names the slot and the type of the reservation.
C11_QueryStepOrder ==
    (WellFormedQuery /\ result = Ok)
    => LET prop == call.args[1].name
           slot == Len(AfterBlock.locals) + 1
           host == Call(HostRoutine[call.word])
       IN  /\ AfterBlock.err = Ok
           /\ Own = <<I32Const(SumLen(SubSeq(literal_memory, 1,
                                  IndexOf(literal_memory, prop) - 1))),
                      I32Const(Len(prop))>>
                    \o SubSeq(AfterBlock.instrs, Len(pre.instrs) + 3, Len(AfterBlock.instrs))
                    \o <<Reserve(slot, call.ty), LocalGet(slot),
                         I32Const(PropertyTable[call.word][prop][2]),
                         host, ReadMem(slot, call.ty)>>
           /\ locals = Append(AfterBlock.locals, call.ty)
           /\ \A r \in Positions(AfterOperand, Reserve(slot, call.ty)),
                 c \in Positions(AfterOperand, host),
                 m \in Positions(AfterOperand, ReadMem(slot, call.ty)) : r < c /\ c < m
           /\ \A k \in 1..Len(AfterOperand) :
                /\ AfterOperand[k].op = "reserve" => AfterOperand[k] = Reserve(slot, call.ty)
                /\ AfterOperand[k].op = "read" => AfterOperand[k] = ReadMem(slot, call.ty)
                /\ AfterOperand[k].op = "local.get" => AfterOperand[k].val = slot

\* (get-burn-block-info? header-hash <a metadata query>) compiled: the operand
\* reserved a slot of its own before the handler's
C11_Witness ==
    /\ WellFormedQuery
    /\ call.word = "get-burn-block-info?"
    /\ call.args[1].name = "header-hash"
    /\ call.args[2].name = "get-block-info?"
    /\ call.ty = OptionalBuff
    /\ result = Ok
    /\ Len(locals) = Len(pre.locals) + 2
    /\ instrs[Len(instrs)] = ReadMem(Len(locals), OptionalBuff)

\* the other metadata-query handler run on the generator, the arguments and
\* the node type of the last query
OtherQuery ==
    IF call.word = "get-block-info?"
    THEN GetBurnBlockInfo_traverse(pre, List("get-burn-block-info?", call.args, call.ty), call.args)
    ELSE GetBlockInfo_traverse(pre, List("get-block-info?", call.args, call.ty), call.args)

\* the instructions of a successful query with the called routine exchanged
\* for that of the other family; the calls of the block operand stay
WithOtherRoutine(is) ==
    [k \in 1..Len(is) |->
        IF k = Len(is) - 1 /\ is[k] = Call(HostRoutine[call.word])
        THEN Call(HostRoutine[CHOOSE w \in Queries : w # call.word])
        ELSE is[k]]

\* C12: get-block-info? and get-burn-block-info? are one protocol: on
\* header-hash, with the same block operand, node type and generator, they leave
\* the same instructions, literals and locals but for the routine called, and
\* the same kind of result; on an input neither table accepts (a malformed
\* argument list, a property of neither table) both fail with the same kind of
\* error having emitted and changed the same.
C12_SameProtocol ==
    call.word \in Queries
    => /\ (WellFormedQuery /\ call.args[1].name = "header-hash")
            => /\ result.kind = OtherQuery.err.kind
               /\ literal_memory = OtherQuery.literal_memory
               /\ locals = OtherQuery.locals
               /\ Len(instrs) = Len(OtherQuery.instrs)
               /\ IF result = Ok
                  THEN /\ WithOtherRoutine(instrs) = OtherQuery.instrs
                       /\ instrs # OtherQuery.instrs
                  ELSE instrs = OtherQuery.instrs
       /\ (~WellFormedQuery
           \/ \A w \in Queries : call.args[1].name \notin DOMAIN PropertyTable[w])
            => /\ result # Ok
               /\ result.kind = OtherQuery.err.kind
               /\ instrs = OtherQuery.instrs
               /\ literal_memory = OtherQuery.literal_memory
               /\ locals = OtherQuery.locals

\* (get-block-info? header-hash <a metadata query>) compiled where the literal
\* header-hash is already in the constant region
C12_Witness ==
    /\ WellFormedQuery
    /\ call.word = "get-block-info?"
    /\ call.args[1].name = "header-hash"
    /\ call.args[2].name = "get-block-info?"
    /\ pre.literal_memory # <<>>
    /\ result = Ok
    /\ OtherQuery.err = Ok
    /\ instrs[Len(instrs) - 1] = Call("stdlib.get_block_info")
    /\ OtherQuery.instrs[Len(instrs) - 1] = Call("stdlib.get_burn_block_info")

====
